---- MODULE Spec2Model ----
(***************************************************************************)
(* Model of src/services/chosicApi.ts: the CORS relay rotation             *)
(* (tryWithProxy), the two fetchers (getSuggestions, generatePlaylist)     *)
(* with their static fallback tables, and the HTML extractor               *)
(* (parseMusicFromHtml).                                                   *)
(*                                                                         *)
(* JavaScript strings are modelled as sequences of one-character strings,  *)
(* so that length, toLowerCase, includes, trim, the identifier regex and   *)
(* template concatenation are computed rather than assumed.                *)
(***************************************************************************)
EXTENDS Integers, Sequences, FiniteSets, TLC

\* ------------------------------------------------------------------------
\* String primitives
\* ------------------------------------------------------------------------

UpperChars == <<"A", "B", "C", "D", "E", "F", "G", "H", "I", "J", "K", "L", "M", "N", "O", "P", "Q", "R", "S", "T", "U", "V", "W", "X", "Y", "Z">>

LowerChars == <<"a", "b", "c", "d", "e", "f", "g", "h", "i", "j", "k", "l", "m", "n", "o", "p", "q", "r", "s", "t", "u", "v", "w", "x", "y", "z">>

DigitChars == <<"0", "1", "2", "3", "4", "5", "6", "7", "8", "9">>

\* String.prototype.toLowerCase on one character (ASCII letters)
LowerOf ==
  [ch \in {UpperChars[k] : k \in 1..Len(UpperChars)} |->
     LowerChars[CHOOSE k \in 1..Len(UpperChars) : UpperChars[k] = ch]]

LowerChar(ch) == IF ch \in DOMAIN LowerOf THEN LowerOf[ch] ELSE ch

\* String.prototype.toLowerCase
toLowerCase(str) == [k \in 1..Len(str) |-> LowerChar(str[k])]

\* TRUE iff pre occurs in str starting at (1-based) position p
OccursAt(str, p, pre) ==
  /\ p >= 1
  /\ p + Len(pre) - 1 <= Len(str)
  /\ \A k \in 1..Len(pre) : str[p + k - 1] = pre[k]

\* String.prototype.includes
includes(str, sub) == \E p \in 1..(Len(str) + 1) : OccursAt(str, p, sub)

WhiteSpace == {" ", "\t", "\n"}

\* String.prototype.trim
trim(str) ==
  LET nonWs == {k \in 1..Len(str) : str[k] \notin WhiteSpace}
  IN IF nonWs = {} THEN <<>>
     ELSE LET lo == CHOOSE k \in nonWs : \A m \in nonWs : k <= m
              hi == CHOOSE k \in nonWs : \A m \in nonWs : k >= m
          IN SubSeq(str, lo, hi)

\* Number-to-string conversion used by the template literal `${index}`
RECURSIVE NumberToString(_)
NumberToString(n) ==
  IF n < 10 THEN <<DigitChars[n + 1]>>
  ELSE NumberToString(n \div 10) \o <<DigitChars[(n % 10) + 1]>>

\* ------------------------------------------------------------------------
\* Static configuration and fallback tables
\* ------------------------------------------------------------------------
CORS_PROXIES ==
  << "https://api.allorigins.win/raw?url=",
     "https://corsproxy.io/?",
     "https://cors-anywhere.herokuapp.com/",
     "https://api.codetabs.com/v1/proxy?quest=" >>


YoutubeWatch == <<"h", "t", "t", "p", "s", ":", "/", "/", "w", "w", "w", ".", "y", "o", "u", "t", "u", "b", "e", ".", "c", "o", "m", "/", "w", "a", "t", "c", "h", "?", "v", "=">>

mockSuggestions ==
  [ song |->
      << [value |-> <<"B", "o", "h", "e", "m", "i", "a", "n", " ", "R", "h", "a", "p", "s", "o", "d", "y">>,
          label |-> <<"B", "o", "h", "e", "m", "i", "a", "n", " ", "R", "h", "a", "p", "s", "o", "d", "y", " ", "-", " ", "Q", "u", "e", "e", "n">>],
         [value |-> <<"I", "m", "a", "g", "i", "n", "e">>,
          label |-> <<"I", "m", "a", "g", "i", "n", "e", " ", "-", " ", "J", "o", "h", "n", " ", "L", "e", "n", "n", "o", "n">>],
         [value |-> <<"H", "o", "t", "e", "l", " ", "C", "a", "l", "i", "f", "o", "r", "n", "i", "a">>,
          label |-> <<"H", "o", "t", "e", "l", " ", "C", "a", "l", "i", "f", "o", "r", "n", "i", "a", " ", "-", " ", "E", "a", "g", "l", "e", "s">>],
         [value |-> <<"S", "t", "a", "i", "r", "w", "a", "y", " ", "t", "o", " ", "H", "e", "a", "v", "e", "n">>,
          label |-> <<"S", "t", "a", "i", "r", "w", "a", "y", " ", "t", "o", " ", "H", "e", "a", "v", "e", "n", " ", "-", " ", "L", "e", "d", " ", "Z", "e", "p", "p", "e", "l", "i", "n">>],
         [value |-> <<"S", "w", "e", "e", "t", " ", "C", "h", "i", "l", "d", " ", "O", " ", "M", "i", "n", "e">>,
          label |-> <<"S", "w", "e", "e", "t", " ", "C", "h", "i", "l", "d", " ", "O", " ", "M", "i", "n", "e", " ", "-", " ", "G", "u", "n", "s", " ", "N", " ", "R", "o", "s", "e", "s">>],
         [value |-> <<"Y", "e", "s", "t", "e", "r", "d", "a", "y">>,
          label |-> <<"Y", "e", "s", "t", "e", "r", "d", "a", "y", " ", "-", " ", "T", "h", "e", " ", "B", "e", "a", "t", "l", "e", "s">>],
         [value |-> <<"S", "m", "e", "l", "l", "s", " ", "L", "i", "k", "e", " ", "T", "e", "e", "n", " ", "S", "p", "i", "r", "i", "t">>,
          label |-> <<"S", "m", "e", "l", "l", "s", " ", "L", "i", "k", "e", " ", "T", "e", "e", "n", " ", "S", "p", "i", "r", "i", "t", " ", "-", " ", "N", "i", "r", "v", "a", "n", "a">>],
         [value |-> <<"B", "i", "l", "l", "i", "e", " ", "J", "e", "a", "n">>,
          label |-> <<"B", "i", "l", "l", "i", "e", " ", "J", "e", "a", "n", " ", "-", " ", "M", "i", "c", "h", "a", "e", "l", " ", "J", "a", "c", "k", "s", "o", "n">>] >>,
    artist |->
      << [value |-> <<"T", "h", "e", " ", "B", "e", "a", "t", "l", "e", "s">>,
          label |-> <<"T", "h", "e", " ", "B", "e", "a", "t", "l", "e", "s">>],
         [value |-> <<"Q", "u", "e", "e", "n">>,
          label |-> <<"Q", "u", "e", "e", "n">>],
         [value |-> <<"L", "e", "d", " ", "Z", "e", "p", "p", "e", "l", "i", "n">>,
          label |-> <<"L", "e", "d", " ", "Z", "e", "p", "p", "e", "l", "i", "n">>],
         [value |-> <<"P", "i", "n", "k", " ", "F", "l", "o", "y", "d">>,
          label |-> <<"P", "i", "n", "k", " ", "F", "l", "o", "y", "d">>],
         [value |-> <<"T", "h", "e", " ", "R", "o", "l", "l", "i", "n", "g", " ", "S", "t", "o", "n", "e", "s">>,
          label |-> <<"T", "h", "e", " ", "R", "o", "l", "l", "i", "n", "g", " ", "S", "t", "o", "n", "e", "s">>],
         [value |-> <<"M", "i", "c", "h", "a", "e", "l", " ", "J", "a", "c", "k", "s", "o", "n">>,
          label |-> <<"M", "i", "c", "h", "a", "e", "l", " ", "J", "a", "c", "k", "s", "o", "n">>],
         [value |-> <<"N", "i", "r", "v", "a", "n", "a">>,
          label |-> <<"N", "i", "r", "v", "a", "n", "a">>],
         [value |-> <<"B", "o", "b", " ", "D", "y", "l", "a", "n">>,
          label |-> <<"B", "o", "b", " ", "D", "y", "l", "a", "n">>] >> ]

mockPlaylistData ==
  << [id |-> <<"1">>,
      title |-> <<"B", "o", "h", "e", "m", "i", "a", "n", " ", "R", "h", "a", "p", "s", "o", "d", "y">>,
      artist |-> <<"Q", "u", "e", "e", "n">>,
      youtubeUrl |-> YoutubeWatch \o <<"f", "J", "9", "r", "U", "z", "I", "M", "c", "Z", "Q">>,
      youtubeId |-> <<"f", "J", "9", "r", "U", "z", "I", "M", "c", "Z", "Q">>],
     [id |-> <<"2">>,
      title |-> <<"I", "m", "a", "g", "i", "n", "e">>,
      artist |-> <<"J", "o", "h", "n", " ", "L", "e", "n", "n", "o", "n">>,
      youtubeUrl |-> YoutubeWatch \o <<"Y", "k", "g", "k", "T", "h", "d", "z", "X", "-", "8">>,
      youtubeId |-> <<"Y", "k", "g", "k", "T", "h", "d", "z", "X", "-", "8">>],
     [id |-> <<"3">>,
      title |-> <<"H", "o", "t", "e", "l", " ", "C", "a", "l", "i", "f", "o", "r", "n", "i", "a">>,
      artist |-> <<"E", "a", "g", "l", "e", "s">>,
      youtubeUrl |-> YoutubeWatch \o <<"B", "c", "i", "S", "5", "k", "r", "Y", "L", "8", "0">>,
      youtubeId |-> <<"B", "c", "i", "S", "5", "k", "r", "Y", "L", "8", "0">>],
     [id |-> <<"4">>,
      title |-> <<"S", "t", "a", "i", "r", "w", "a", "y", " ", "t", "o", " ", "H", "e", "a", "v", "e", "n">>,
      artist |-> <<"L", "e", "d", " ", "Z", "e", "p", "p", "e", "l", "i", "n">>,
      youtubeUrl |-> YoutubeWatch \o <<"Q", "k", "F", "3", "o", "x", "z", "i", "U", "I", "4">>,
      youtubeId |-> <<"Q", "k", "F", "3", "o", "x", "z", "i", "U", "I", "4">>],
     [id |-> <<"5">>,
      title |-> <<"S", "w", "e", "e", "t", " ", "C", "h", "i", "l", "d", " ", "O", " ", "M", "i", "n", "e">>,
      artist |-> <<"G", "u", "n", "s", " ", "N", " ", "R", "o", "s", "e", "s">>,
      youtubeUrl |-> YoutubeWatch \o <<"1", "w", "7", "O", "g", "I", "M", "M", "R", "c", "4">>,
      youtubeId |-> <<"1", "w", "7", "O", "g", "I", "M", "M", "R", "c", "4">>],
     [id |-> <<"6">>,
      title |-> <<"Y", "e", "s", "t", "e", "r", "d", "a", "y">>,
      artist |-> <<"T", "h", "e", " ", "B", "e", "a", "t", "l", "e", "s">>,
      youtubeUrl |-> YoutubeWatch \o <<"N", "r", "g", "m", "d", "O", "z", "2", "2", "7", "I">>,
      youtubeId |-> <<"N", "r", "g", "m", "d", "O", "z", "2", "2", "7", "I">>],
     [id |-> <<"7">>,
      title |-> <<"S", "m", "e", "l", "l", "s", " ", "L", "i", "k", "e", " ", "T", "e", "e", "n", " ", "S", "p", "i", "r", "i", "t">>,
      artist |-> <<"N", "i", "r", "v", "a", "n", "a">>,
      youtubeUrl |-> YoutubeWatch \o <<"h", "T", "W", "K", "b", "f", "o", "i", "k", "e", "g">>,
      youtubeId |-> <<"h", "T", "W", "K", "b", "f", "o", "i", "k", "e", "g">>],
     [id |-> <<"8">>,
      title |-> <<"B", "i", "l", "l", "i", "e", " ", "J", "e", "a", "n">>,
      artist |-> <<"M", "i", "c", "h", "a", "e", "l", " ", "J", "a", "c", "k", "s", "o", "n">>,
      youtubeUrl |-> YoutubeWatch \o <<"Z", "i", "_", "X", "L", "O", "B", "D", "o", "_", "Y">>,
      youtubeId |-> <<"Z", "i", "_", "X", "L", "O", "B", "D", "o", "_", "Y">>] >>

\* ------------------------------------------------------------------------
\* HTML Extractor (parseMusicFromHtml)
\*
\* A parsed document is the sequence of its '.pl-item' elements in document
\* order (the result of querySelectorAll).  An item carries what the three
\* querySelector calls can see: the text of its first '.song-title' element
\* (<<>> when there is none, <<text>> otherwise), likewise for '.artist-name',
\* and the href values of its anchors in document order.
\* ------------------------------------------------------------------------
YoutubeDotCom == <<"y", "o", "u", "t", "u", "b", "e", ".", "c", "o", "m">>

WatchPrefix == <<"y", "o", "u", "t", "u", "b", "e", ".", "c", "o", "m", "/", "w", "a", "t", "c", "h", "?", "v", "=">>

ShortPrefix == <<"y", "o", "u", "t", "u", ".", "b", "e", "/">>

\* the fragment mark does not end the identifier
IdStopChars_NoHash == {"&", "\n", "?"}

\* characters excluded by the class [^&\n?#]
IdStopChars == {"&", "\n", "?", "#"}

\* item.querySelector('a[href*="youtube.com"]'): hrefs of the matching anchors
YoutubeAnchors(item) ==
  SelectSeq(item.anchors, LAMBDA href : includes(href, YoutubeDotCom))

\* the greedy run [^&\n?#]+ starting at position p (empty when none)
IdRunFrom(url, p) ==
  LET stops == {k \in p..Len(url) : url[k] \in IdStopChars}
      last == IF stops = {} THEN Len(url)
              ELSE (CHOOSE k \in stops : \A m \in stops : k <= m) - 1
  IN SubSeq(url, p, last)

\* the capture of the regex when it is anchored at position p, <<>> if the
\* regex does not match there (alternatives tried left to right)
IdMatchAt(url, p) ==
  IF OccursAt(url, p, WatchPrefix) /\ IdRunFrom(url, p + Len(WatchPrefix)) # <<>>
  THEN IdRunFrom(url, p + Len(WatchPrefix))
  ELSE IF OccursAt(url, p, ShortPrefix) /\ IdRunFrom(url, p + Len(ShortPrefix)) # <<>>
  THEN IdRunFrom(url, p + Len(ShortPrefix))
  ELSE <<>>

\* youtubeIdMatch ? youtubeIdMatch[1] : ''   (leftmost match of the regex)
extractYoutubeId(url) ==
  LET hits == {p \in 1..Len(url) : IdMatchAt(url, p) # <<>>}
  IN IF hits = {} THEN <<>>
     ELSE IdMatchAt(url, CHOOSE p \in hits : \A q \in hits : p <= q)

\* the index is left out of the id
songId_NoIndex(index, youtubeId) == youtubeId

\* the index counts from 1
songId_OneBased(index, youtubeId) ==
  NumberToString(index + 1) \o <<"-">> \o youtubeId

\* `${index}-${youtubeId}`
songId(index, youtubeId) == NumberToString(index) \o <<"-">> \o youtubeId

\* the record is pushed without looking at title, artist and identifier
itemSongs_NoEmptyCheck(item, index) ==
  IF item.title # <<>> /\ item.artist # <<>> /\ YoutubeAnchors(item) # <<>>
  THEN << [id |-> songId(index, extractYoutubeId(YoutubeAnchors(item)[1])),
           title |-> trim(item.title[1]),
           artist |-> trim(item.artist[1]),
           youtubeUrl |-> YoutubeAnchors(item)[1],
           youtubeId |-> extractYoutubeId(YoutubeAnchors(item)[1])] >>
  ELSE <<>>

\* body of the forEach callback: the records pushed for one item (0 or 1)
itemSongs(item, index) ==
  IF item.title # <<>> /\ item.artist # <<>> /\ YoutubeAnchors(item) # <<>>
  THEN LET title == trim(item.title[1])
           artist == trim(item.artist[1])
           youtubeUrl == YoutubeAnchors(item)[1]
           youtubeId == extractYoutubeId(youtubeUrl)
       IN IF title # <<>> /\ artist # <<>> /\ youtubeId # <<>>
          THEN << [id |-> songId(index, youtubeId),
                   title |-> title,
                   artist |-> artist,
                   youtubeUrl |-> youtubeUrl,
                   youtubeId |-> youtubeId] >>
          ELSE <<>>
  ELSE <<>>

\* musicItems.forEach((item, index) => ...), index is 0-based
RECURSIVE forEachItem(_, _, _)
forEachItem(musicItems, index, acc) ==
  IF index >= Len(musicItems) THEN acc
  ELSE forEachItem(musicItems, index + 1,
                   acc \o itemSongs(musicItems[index + 1], index))

parseMusicFromHtml(html) == forEachItem(html, 0, <<>>)

\* ------------------------------------------------------------------------
\* Fallback paths of the two fetchers
\* ------------------------------------------------------------------------
\* property names every object literal inherits from Object.prototype
ObjectPrototypeKeys ==
  {"constructor", "toString", "toLocaleString", "valueOf", "hasOwnProperty",
   "isPrototypeOf", "propertyIsEnumerable", "__proto__"}

Resolved(v) == [kind |-> "resolved", value |-> v, error |-> ""]

Rejected(e) == [kind |-> "rejected", value |-> <<>>, error |-> e]

Pending == [kind |-> "pending", value |-> <<>>, error |-> ""]

\* predicate of the filter callback in the catch block of getSuggestions
suggestionMatches(s, query) ==
  \/ includes(toLowerCase(s.value), toLowerCase(query))
  \/ includes(toLowerCase(s.label), toLowerCase(query))

\* catch block of getSuggestions: mockSuggestions[type] || [], then .filter.
\* A property inherited from Object.prototype is truthy and has no filter
\* method, so the call throws a TypeError out of the catch block.
suggestionFallback(query, type) ==
  IF type \in DOMAIN mockSuggestions
  THEN Resolved(SelectSeq(mockSuggestions[type],
                          LAMBDA s : suggestionMatches(s, query)))
  ELSE IF type \in ObjectPrototypeKeys
  THEN Rejected("TypeError: suggestions.filter is not a function")
  ELSE Resolved(<<>>)

\* the artist is not looked at
songMatches_TitleOnly(song, query) ==
  includes(toLowerCase(song.title), toLowerCase(query))

\* predicate of the filter callback in the catch block of generatePlaylist
songMatches(song, query) ==
  LET searchTerm == toLowerCase(query)
  IN \/ includes(toLowerCase(song.title), searchTerm)
     \/ includes(toLowerCase(song.artist), searchTerm)

\* Array.prototype.slice(0, n)
slice0(arr, n) == SubSeq(arr, 1, IF Len(arr) < n THEN Len(arr) ELSE n)

PlaylistCap == 10

\* catch block of generatePlaylist
playlistFallback(query) ==
  Resolved(slice0(SelectSeq(mockPlaylistData,
                            LAMBDA song : songMatches(song, query)),
                  PlaylistCap))

\* ------------------------------------------------------------------------
\* Bounds and input universes
\* ------------------------------------------------------------------------
\* number of calls of the two fetchers made in one behaviour of Spec
MaxCalls == 2

\* longest document (number of '.pl-item' elements) given to the extractor
MaxItems == 3

N == Len(CORS_PROXIES)

Calls == 1..MaxCalls

Q_Queen == <<"Q", "u", "e", "e", "n">>

Q_q == <<"q">>

Q_empty == <<>>

Q_imagine == <<"i", "m", "a", "g", "i", "n", "e">>

Q_THE == <<"T", "H", "E">>

Q_Lennon == <<"L", "e", "n", "n", "o", "n">>

Q_zz == <<"z", "z">>

\* the query and type used when calls run concurrently
RaceQuery == Q_Queen

RaceType == "artist"

\* queries and types used when one call runs alone
DataQueries == {Q_Queen, Q_q, Q_empty, Q_imagine, Q_THE, Q_Lennon, Q_zz}

DataTypes == {"song", "artist", "genre", "constructor"}

ItemA ==
  [title |-> <<<<" ", "S", "o", "n", "g", " ", "A", "\n">>>>, artist |-> <<<<"A", "r", "t">>>>,
   anchors |-> <<<<"h", "t", "t", "p", "s", ":", "/", "/", "w", "w", "w", ".", "y", "o", "u", "t", "u", "b", "e", ".", "c", "o", "m", "/", "w", "a", "t", "c", "h", "?", "v", "=", "a", "b", "c", "1", "2", "3", "&", "l", "i", "s", "t", "=", "x">>>>]

ItemB ==
  [title |-> <<<<"B">>>>, artist |-> <<<<"B", "b", " ">>>>,
   anchors |-> <<<<"/", "a", "b", "o", "u", "t">>, <<"h", "t", "t", "p", "s", ":", "/", "/", "y", "o", "u", "t", "u", "b", "e", ".", "c", "o", "m", "/", "w", "a", "t", "c", "h", "?", "v", "=", "Z", "i", "_", "X", "#", "t">>>>]

\* another song carrying the video of ItemA
ItemA2 ==
  [title |-> <<<<"A", " ", "l", "i", "v", "e">>>>, artist |-> <<<<"A", "r", "t">>>>,
   anchors |-> <<<<"h", "t", "t", "p", "s", ":", "/", "/", "w", "w", "w", ".", "y", "o", "u", "t", "u", "b", "e", ".", "c", "o", "m", "/", "w", "a", "t", "c", "h", "?", "v", "=", "a", "b", "c", "1", "2", "3">>>>]

ItemNoTitle == [ItemA EXCEPT !.title = <<>>]

ItemNoArtist == [ItemB EXCEPT !.artist = <<>>]

\* its only anchor does not contain "youtube.com"
ItemNoAnchor == [ItemA EXCEPT !.anchors = <<<<"h", "t", "t", "p", "s", ":", "/", "/", "y", "o", "u", "t", "u", ".", "b", "e", "/", "a", "b", "c", "1", "2", "3">>>>]

\* the title element is there but holds white space only
ItemBlankTitle == [ItemA EXCEPT !.title = <<<<" ", "\n">>>>]

\* the anchor matches the selector but the regex finds no identifier
ItemNoId == [ItemB EXCEPT !.anchors = <<<<"h", "t", "t", "p", "s", ":", "/", "/", "w", "w", "w", ".", "y", "o", "u", "t", "u", "b", "e", ".", "c", "o", "m", "/", "w", "a", "t", "c", "h", "?", "v", "=", "&", "t", "=", "1">>>>]

\* a short link; the selector is satisfied by the query part
ItemShort ==
  [title |-> <<<<"S">>>>, artist |-> <<<<"S", "s">>>>,
   anchors |-> <<<<"h", "t", "t", "p", "s", ":", "/", "/", "y", "o", "u", "t", "u", ".", "b", "e", "/", "x", "Y", "-", "9", "?", "s", "i", "=", "y", "o", "u", "t", "u", "b", "e", ".", "c", "o", "m">>>>]

\* the anchor matches the selector but holds neither form of video link
ItemChannel == [ItemB EXCEPT !.anchors = <<<<"h", "t", "t", "p", "s", ":", "/", "/", "w", "w", "w", ".", "y", "o", "u", "t", "u", "b", "e", ".", "c", "o", "m", "/", "c", "/", "x">>>>]

ItemKinds ==
  {ItemA, ItemB, ItemA2, ItemNoTitle, ItemNoArtist, ItemNoAnchor,
   ItemBlankTitle, ItemNoId, ItemShort, ItemChannel}

\* documents given to the extractor on its own
Docs == UNION {[1..n -> ItemKinds] : n \in 0..MaxItems}

\* documents a relay may answer generatePlaylist with
PlaylistDocs ==
  {<<>>, <<ItemB>>, <<ItemA, ItemNoTitle, ItemA2>>, <<ItemNoTitle, ItemNoId>>, <<ItemNoArtist, ItemA, ItemB>>}

RemoteSuggestions ==
  <<[value |-> <<"Q", "u", "e", "e", "n", " ", "I", "I">>, label |-> <<"Q", "u", "e", "e", "n", " ", "I", "I", " ", "-", " ", "Q", "u", "e", "e", "n">>]>>

\* ------------------------------------------------------------------------
\* State
\* ------------------------------------------------------------------------
VARIABLES
  workingProxyIndex,  \* the module-level rotation hint
  calls,              \* per call: position, locals of tryWithProxy, outcome;
                      \* reqs lists the relays the call sent a request to and
                      \* lastRejected is what the fetch that rejected last threw
  lastEnded,          \* the call that settled most recently (0: none yet)
  html,               \* document handed to parseMusicFromHtml on its own
  parsed,             \* TRUE once parseMusicFromHtml has returned
  songs,              \* what parseMusicFromHtml returned
  timers,             \* callbacks set by activateCorsProxy, in firing order
  opened              \* pages opened by those callbacks so far

vars == <<workingProxyIndex, calls, lastEnded, html, parsed, songs, timers, opened>>

NoError == [name |-> "null"]

\* what a rejected fetch may throw: a network failure or a timeout
ErrorKinds == {"TypeError: Failed to fetch", "AbortError: timed out"}

FetchError(kind) == [name |-> kind]

AllFailed == [name |-> "Error: All CORS proxies failed"]

NoResponse ==
  [ok |-> FALSE, json |-> FALSE, bodyFails |-> FALSE, isArray |-> FALSE,
   items |-> <<>>, html |-> <<>>]

\* success-status responses a relay may give to the suggestions request:
\* content type JSON or not; body that parses or not; array or other value
SuggestionResponses ==
  { [NoResponse EXCEPT !.ok = TRUE, !.json = TRUE, !.isArray = TRUE,
                       !.items = RemoteSuggestions],
    [NoResponse EXCEPT !.ok = TRUE, !.json = TRUE, !.isArray = TRUE],
    [NoResponse EXCEPT !.ok = TRUE, !.json = TRUE],
    [NoResponse EXCEPT !.ok = TRUE, !.json = TRUE, !.bodyFails = TRUE],
    [NoResponse EXCEPT !.ok = TRUE] }

\* success-status responses a relay may give to the playlist request
PlaylistResponses ==
  { [NoResponse EXCEPT !.ok = TRUE, !.html = d] : d \in PlaylistDocs }
  \cup { [NoResponse EXCEPT !.ok = TRUE, !.bodyFails = TRUE] }

\* the responses used when calls run concurrently: one usable and one
\* unusable response for each fetcher
RaceResponses ==
  { [NoResponse EXCEPT !.ok = TRUE, !.json = TRUE, !.isArray = TRUE,
                       !.items = RemoteSuggestions],
    [NoResponse EXCEPT !.ok = TRUE],
    [NoResponse EXCEPT !.ok = TRUE, !.html = <<ItemB>>],
    [NoResponse EXCEPT !.ok = TRUE, !.html = <<>>] }

IdleCall ==
  [pc |-> "idle", op |-> "none", query |-> <<>>, type |-> "",
   i |-> 0, proxyIndex |-> 0, lastError |-> NoError, lastRejected |-> "",
   reqs |-> <<>>,
   resp |-> NoResponse, thrown |-> NoError, result |-> Pending, after |-> 0]

Init ==
  /\ workingProxyIndex = 0
  /\ calls = [c \in Calls |-> IdleCall]
  /\ lastEnded = 0
  /\ html = <<>>
  /\ parsed = FALSE
  /\ songs = <<>>
  /\ timers = <<>>
  /\ opened = {}

\* ------------------------------------------------------------------------
\* tryWithProxy
\* ------------------------------------------------------------------------
InFlight == {c \in Calls : calls[c].pc = "fetch"}

\* calls are numbered in the order they are made
CanStart(c) ==
  /\ calls[c].pc = "idle"
  /\ IF c = 1 THEN TRUE ELSE calls[c - 1].pc # "idle"

\* the rotation starts one past the hint
rotationIndex_SkipFirst(w, i) == (w + i + 1) % N

\* const proxyIndex = (workingProxyIndex + i) % CORS_PROXIES.length
rotationIndex(w, i) == (w + i) % N

\* throw lastError || new Error('All CORS proxies failed')
thrownError(lastError) == IF lastError # NoError THEN lastError ELSE AllFailed

\* the hint is stored as a 1-based position
indexAfterOk_OneBased(w, proxyIndex) == proxyIndex + 1

\* a success status puts the rotation back to the first relay
indexAfterOk_Reset(w, proxyIndex) == 0

\* the hint is not updated on success
indexAfterOk_Stale(w, proxyIndex) == w

\* value of workingProxyIndex after a response with response.ok
indexAfterOk(w, proxyIndex) == proxyIndex

\* the first error thrown is kept
errorAfterCatch_KeepFirst(lastError, error) ==
  IF lastError # NoError THEN lastError ELSE error

\* lastError after the catch clause ran for a rejected fetch
errorAfterCatch(lastError, error) == error

\* entry of tryWithProxy up to the first await: i = 0, first fetch issued
enterTry(call) ==
  [call EXCEPT !.pc = "fetch",
               !.i = 0,
               !.lastError = NoError,
               !.proxyIndex = rotationIndex(workingProxyIndex, 0),
               !.reqs = <<rotationIndex(workingProxyIndex, 0)>>]

\* The fallback results and the extractor's results over the input
\* universes, tabulated once.
suggestionFallbackOf ==
  [q \in DataQueries, ty \in DataTypes |-> suggestionFallback(q, ty)]

playlistFallbackOf == [q \in DataQueries |-> playlistFallback(q)]

parsedDoc == [d \in PlaylistDocs |-> parseMusicFromHtml(d)]

\* only the call that settled last stays on record: an earlier settled
\* call has handed its result to its caller and is not looked at again
PastCall == [IdleCall EXCEPT !.pc = "past"]

retire(cs) == [d \in Calls |-> IF cs[d].pc = "done" THEN PastCall ELSE cs[d]]

\* the frame of tryWithProxy is gone once the fetcher has settled
settle(call) ==
  [call EXCEPT !.pc = "done", !.i = 0, !.proxyIndex = 0, !.lastError = NoError]

\* a JSON value that is not an array is treated as a failure
suggestionsFromResponse_NonArrayFallsBack(resp, query, type) ==
  IF ~resp.json \/ resp.bodyFails \/ ~resp.isArray
  THEN suggestionFallbackOf[query, type]
  ELSE Resolved(resp.items)

\* getSuggestions after tryWithProxy returned resp (lines 180-186 and catch)
suggestionsFromResponse(resp, query, type) ==
  IF ~resp.json THEN suggestionFallbackOf[query, type]
  ELSE IF resp.bodyFails THEN suggestionFallbackOf[query, type]
  ELSE Resolved(IF resp.isArray THEN resp.items ELSE <<>>)

\* an empty extraction is returned as it is
playlistFromResponse_NoEmptyCheck(resp, query) ==
  IF resp.bodyFails THEN playlistFallbackOf[query]
  ELSE Resolved(parsedDoc[resp.html])

\* generatePlaylist after tryWithProxy returned resp (lines 212-222 and catch)
playlistFromResponse(resp, query) ==
  IF resp.bodyFails THEN playlistFallbackOf[query]
  ELSE IF Len(parsedDoc[resp.html]) = 0 THEN playlistFallbackOf[query]
  ELSE Resolved(parsedDoc[resp.html])

\* only the empty query is turned away
tooShort_OnlyEmpty(query) == Len(query) < 1

\* if (query.length < 2) return []
tooShort(query) == Len(query) < 2

\* getSuggestions(query, type) up to its first suspension
getSuggestions(c, query, type) ==
  /\ CanStart(c)
  /\ LET call == [calls[c] EXCEPT !.op = "getSuggestions", !.query = query,
                                  !.type = type,
                                  !.after = IF InFlight = {} THEN lastEnded ELSE 0]
     IN IF tooShort(query)
        THEN /\ calls' = [retire(calls) EXCEPT ![c] =
                            [call EXCEPT !.pc = "done", !.result = Resolved(<<>>)]]
             /\ lastEnded' = c
        ELSE /\ calls' = [calls EXCEPT ![c] = enterTry(call)]
             /\ UNCHANGED lastEnded
  /\ UNCHANGED <<workingProxyIndex, html, parsed, songs, timers, opened>>

\* generatePlaylist(options) up to its first suspension
generatePlaylist(c, query) ==
  /\ CanStart(c)
  /\ calls' = [calls EXCEPT ![c] =
       enterTry([calls[c] EXCEPT !.op = "generatePlaylist", !.query = query,
                                 !.after = IF InFlight = {} THEN lastEnded ELSE 0])]
  /\ UNCHANGED <<workingProxyIndex, lastEnded, html, parsed, songs, timers, opened>>

\* the pending fetch resolves with a success status: the hint is updated,
\* tryWithProxy returns and the fetcher runs to its end
FetchOk(c, resp) ==
  /\ calls[c].pc = "fetch"
  /\ resp \in (IF calls[c].op = "getSuggestions" THEN SuggestionResponses
               ELSE PlaylistResponses)
  /\ workingProxyIndex' = indexAfterOk(workingProxyIndex, calls[c].proxyIndex)
  /\ calls' = [retire(calls) EXCEPT ![c] =
       [settle(calls[c]) EXCEPT
                 !.lastRejected = "",
                 !.resp = resp,
                 !.result = IF calls[c].op = "getSuggestions"
                            THEN suggestionsFromResponse(resp, calls[c].query, calls[c].type)
                            ELSE playlistFromResponse(resp, calls[c].query)]]
  /\ lastEnded' = c
  /\ UNCHANGED <<html, parsed, songs, timers, opened>>

\* the loop after a failed candidate: next candidate, or throw and fall back
afterFailure(c, lastError, lastRejected) ==
  IF calls[c].i + 1 < N
  THEN /\ calls' = [calls EXCEPT ![c] =
            [calls[c] EXCEPT !.i = @ + 1,
                      !.lastError = lastError,
                      !.lastRejected = lastRejected,
                      !.proxyIndex = rotationIndex(workingProxyIndex, calls[c].i + 1),
                      !.reqs = Append(@, rotationIndex(workingProxyIndex, calls[c].i + 1))]]
       /\ UNCHANGED lastEnded
  ELSE /\ calls' = [retire(calls) EXCEPT ![c] =
            [settle(calls[c]) EXCEPT
                      !.lastRejected = lastRejected,
                      !.thrown = thrownError(lastError),
                      !.result = IF calls[c].op = "getSuggestions"
                                 THEN suggestionFallbackOf[calls[c].query, calls[c].type]
                                 ELSE playlistFallbackOf[calls[c].query]]]
       /\ lastEnded' = c

\* the pending fetch resolves with a non-success status
FetchNotOk(c) ==
  /\ calls[c].pc = "fetch"
  /\ afterFailure(c, calls[c].lastError, calls[c].lastRejected)
  /\ UNCHANGED <<workingProxyIndex, html, parsed, songs, timers, opened>>

\* the pending fetch rejects, throwing an error of the given kind
FetchRejects(c, kind) ==
  /\ calls[c].pc = "fetch"
  /\ kind \in ErrorKinds
  /\ afterFailure(c, errorAfterCatch(calls[c].lastError, FetchError(kind)), kind)
  /\ UNCHANGED <<workingProxyIndex, html, parsed, songs, timers, opened>>

Next ==
  \/ \E c \in Calls : getSuggestions(c, RaceQuery, RaceType)
  \/ \E c \in Calls : generatePlaylist(c, RaceQuery)
  \/ \E c \in Calls, r \in RaceResponses : FetchOk(c, r)
  \/ \E c \in Calls : FetchNotOk(c)
  \/ \E c \in Calls : FetchRejects(c, "TypeError: Failed to fetch")

Spec == Init /\ [][Next]_vars

\* ------------------------------------------------------------------------
\* activateCorsProxy
\* ------------------------------------------------------------------------
AllOriginsPage == "https://allorigins.win/"

CorsDemoPage == "https://cors-anywhere.herokuapp.com/corsdemo"

\* proxy.includes(...) of the two branches, by 0-based index in CORS_PROXIES
pageFor(index) ==
  IF index = 0 THEN {AllOriginsPage}
  ELSE IF index = 2 THEN {CorsDemoPage}
  ELSE {}

\* activateCorsProxy(): one timer per relay, due after index * 1000 ms, so
\* they fire in index order.  The activation is modelled once per behaviour.
activateCorsProxy ==
  /\ timers = <<>>
  /\ opened = {}
  /\ timers' = [k \in 1..N |-> k - 1]
  /\ UNCHANGED <<workingProxyIndex, calls, lastEnded, html, parsed, songs, opened>>

\* the timer that is due next fires: its callback opens a page or does nothing
TimerFires ==
  /\ timers # <<>>
  /\ opened' = opened \cup pageFor(Head(timers))
  /\ timers' = Tail(timers)
  /\ UNCHANGED <<workingProxyIndex, calls, lastEnded, html, parsed, songs>>

\* the responses used next to the activation: one for each fetcher
HintResponses ==
  { [NoResponse EXCEPT !.ok = TRUE, !.json = TRUE, !.isArray = TRUE,
                       !.items = RemoteSuggestions],
    [NoResponse EXCEPT !.ok = TRUE, !.html = <<>>] }

\* concurrent calls of both fetchers next to the activation
HintNext ==
  \/ \E c \in Calls : getSuggestions(c, RaceQuery, RaceType)
  \/ \E c \in Calls : generatePlaylist(c, RaceQuery)
  \/ \E c \in Calls, r \in HintResponses : FetchOk(c, r)
  \/ \E c \in Calls : FetchNotOk(c)
  \/ \E c \in Calls : FetchRejects(c, "TypeError: Failed to fetch")
  \/ activateCorsProxy
  \/ TimerFires

HintSpec == Init /\ [][HintNext]_vars

\* the pending request of call c completes: it responds or throws
Completes(c) ==
  \/ \E r \in HintResponses : FetchOk(c, r)
  \/ FetchNotOk(c)
  \/ FetchRejects(c, "TypeError: Failed to fetch")

\* type arguments of the concurrent calls: a key of the fallback table and
\* a string that is not one
FairTypes == {RaceType, "constructor"}

FairNext ==
  \/ \E c \in Calls, type \in FairTypes : getSuggestions(c, RaceQuery, type)
  \/ \E c \in Calls : generatePlaylist(c, RaceQuery)
  \/ \E c \in Calls : \E r \in HintResponses : FetchOk(c, r)
  \/ \E c \in Calls : FetchNotOk(c)
  \/ \E c \in Calls : FetchRejects(c, "TypeError: Failed to fetch")

\* concurrent calls under the proviso that every relay request eventually
\* completes: a pending fetch is not left pending forever
FairSpec == Init /\ [][FairNext]_vars /\ \A c \in Calls : WF_vars(Completes(c))

\* one call on its own, over the wide input universe
DataNext ==
  \/ \E q \in DataQueries, t \in DataTypes : getSuggestions(1, q, t)
  \/ \E q \in DataQueries : generatePlaylist(1, q)
  \/ \E r \in SuggestionResponses \cup PlaylistResponses : FetchOk(1, r)
  \/ FetchNotOk(1)
  \/ \E k \in ErrorKinds : FetchRejects(1, k)

\* earlier calls may have left the hint at any relay
DataInit ==
  /\ workingProxyIndex \in 0..(N - 1)
  /\ calls = [c \in Calls |-> IdleCall]
  /\ lastEnded = 0
  /\ html = <<>>
  /\ parsed = FALSE
  /\ songs = <<>>
  /\ timers = <<>>
  /\ opened = {}

DataSpec == DataInit /\ [][DataNext]_vars

\* the extractor on its own, over all documents up to MaxItems items
ParseInit ==
  /\ workingProxyIndex = 0
  /\ calls = [c \in Calls |-> IdleCall]
  /\ lastEnded = 0
  /\ html \in Docs
  /\ parsed = FALSE
  /\ songs = <<>>
  /\ timers = <<>>
  /\ opened = {}

Parse ==
  /\ ~parsed
  /\ songs' = parseMusicFromHtml(html)
  /\ parsed' = TRUE
  /\ UNCHANGED <<workingProxyIndex, calls, lastEnded, html, timers, opened>>

ParseNext == Parse

ParseSpec == ParseInit /\ [][ParseNext]_vars

\* ------------------------------------------------------------------------
\* Properties
\* ------------------------------------------------------------------------
Settled(c) == calls[c].pc = "done"

\* tryWithProxy of call c threw (every candidate it tried failed)
TryThrew(c) == Settled(c) /\ calls[c].thrown # NoError

\* tryWithProxy of call c returned a response
TryReturned(c) == Settled(c) /\ calls[c].resp.ok

Requested(c) == {calls[c].reqs[k] : k \in 1..Len(calls[c].reqs)}

\* C1: within one call of tryWithProxy no relay is requested more than once,
\* whatever other calls do to workingProxyIndex while the call is suspended.
C1_NoRelayRequestedTwice ==
  \A c \in Calls :
    \A j, k \in 1..Len(calls[c].reqs) :
      j # k => calls[c].reqs[j] # calls[c].reqs[k]

\* C2: a call of tryWithProxy throws only after it has requested every one
\* of the N relays (and none of them returned a success status).
C2_ThrowsOnlyAfterAllRelays ==
  \A c \in Calls : TryThrew(c) => Requested(c) = 0..(N - 1)

\* call c asked relay s first, which failed, and then relay (s+1) mod N,
\* which returned a success status
FailedThenSucceeded(c) ==
  /\ TryReturned(c)
  /\ Len(calls[c].reqs) = 2
  /\ calls[c].reqs[2] = (calls[c].reqs[1] + 1) % N

\* C3: if in a call the candidate at the rotation start s fails and the one
\* at (s+1) mod N succeeds, workingProxyIndex is (s+1) mod N afterwards and
\* the next call, with no other call in between, sends its first request to
\* relay (s+1) mod N.
C3_NextCallStartsAtSuccessor ==
  \A c \in Calls :
    FailedThenSucceeded(c) =>
      /\ lastEnded = c => workingProxyIndex = calls[c].reqs[2]
      /\ \A d \in Calls :
           (calls[d].after = c /\ calls[d].reqs # <<>>)
             => calls[d].reqs[1] = calls[c].reqs[2]

C3_Witness ==
  \E c, d \in Calls :
    /\ FailedThenSucceeded(c)
    /\ calls[d].after = c
    /\ calls[d].reqs # <<>>
    /\ calls[d].reqs[1] = calls[c].reqs[2]
    /\ workingProxyIndex = calls[c].reqs[2]

\* ---- reference definitions the results are compared with ----
\* a and b are the same character up to letter case
SameLetter(a, b) ==
  \/ a = b
  \/ \E k \in 1..Len(UpperChars) : {a, b} = {UpperChars[k], LowerChars[k]}

\* sub occurs in str as a case-insensitive substring
ContainsCI(str, sub) ==
  \E off \in 0..(Len(str) - Len(sub)) :
    \A k \in 1..Len(sub) : SameLetter(str[off + k], sub[k])

\* the entries of table at the positions in P, in table order
PickInOrder(table, P) ==
  [k \in 1..Cardinality(P) |->
     table[CHOOSE j \in P : Cardinality({m \in P : m < j}) = k - 1]]

\* entries of the suggestion table for type whose value or label contains
\* query; no entries for a type the table does not have
ExpectedSuggestions(query, type) ==
  IF type \in {"song", "artist"}
  THEN PickInOrder(mockSuggestions[type],
         {j \in 1..Len(mockSuggestions[type]) :
            \/ ContainsCI(mockSuggestions[type][j].value, query)
            \/ ContainsCI(mockSuggestions[type][j].label, query)})
  ELSE <<>>

\* entries of the static song list whose title or artist contains query
MatchingSongs(query) ==
  PickInOrder(mockPlaylistData,
    {j \in 1..Len(mockPlaylistData) :
       \/ ContainsCI(mockPlaylistData[j].title, query)
       \/ ContainsCI(mockPlaylistData[j].artist, query)})

\* getSuggestions of call c took its failure path
SuggestionFailed(c) ==
  /\ Settled(c)
  /\ calls[c].op = "getSuggestions"
  /\ \/ TryThrew(c)
     \/ TryReturned(c) /\ (~calls[c].resp.json \/ calls[c].resp.bodyFails)

\* generatePlaylist of call c got a success-status response whose HTML
\* yields no song
ZeroSongs(c) ==
  /\ TryReturned(c)
  /\ calls[c].op = "generatePlaylist"
  /\ ~calls[c].resp.bodyFails
  /\ parseMusicFromHtml(calls[c].resp.html) = <<>>

\* generatePlaylist of call c took its failure path
PlaylistFailed(c) ==
  /\ Settled(c)
  /\ calls[c].op = "generatePlaylist"
  /\ \/ TryThrew(c)
     \/ TryReturned(c) /\ calls[c].resp.bodyFails
     \/ ZeroSongs(c)

\* C4: getSuggestions always resolves and never rejects, for every query,
\* every type string and every outcome of the relays; on the failure path
\* with a type the fallback table does not have, it resolves to the empty
\* sequence.
C4_SuggestionsNeverReject ==
  \A c \in Calls :
    (Settled(c) /\ calls[c].op = "getSuggestions") =>
      /\ calls[c].result.kind = "resolved"
      /\ (SuggestionFailed(c) /\ calls[c].type \notin {"song", "artist"})
           => calls[c].result.value = <<>>

\* C5: a call of getSuggestions with a query shorter than 2 characters
\* returns the empty sequence at once, sends no relay request and leaves
\* workingProxyIndex unchanged.
C5_ShortQueryNoNetwork ==
  [][\A c \in Calls :
       (/\ calls[c].pc = "idle"
        /\ calls'[c].pc # "idle"
        /\ calls'[c].op = "getSuggestions"
        /\ Len(calls'[c].query) < 2)
       => /\ calls'[c].pc = "done"
          /\ calls'[c].result = Resolved(<<>>)
          /\ calls'[c].reqs = <<>>
          /\ workingProxyIndex' = workingProxyIndex]_vars

C5_Witness ==
  \E c \in Calls :
    /\ Settled(c)
    /\ calls[c].op = "getSuggestions"
    /\ Len(calls[c].query) = 1
    /\ calls[c].reqs = <<>>
    /\ calls[c].result = Resolved(<<>>)
    /\ workingProxyIndex # 0

\* C6: when generatePlaylist gets a success-status response from which the
\* extractor yields no song, it returns what it returns when every relay
\* fails: the static fallback list filtered by the query.
C6_ZeroSongsFallsBack ==
  \A c \in Calls :
    ZeroSongs(c) =>
      /\ calls[c].result.kind = "resolved"
      /\ calls[c].result.value = MatchingSongs(calls[c].query)
      /\ calls[c].result = playlistFallback(calls[c].query)

C6_Witness ==
  \E c \in Calls :
    /\ ZeroSongs(c)
    /\ calls[c].resp.html # <<>>
    /\ calls[c].result.value # <<>>
    /\ calls[c].result.value = MatchingSongs(calls[c].query)

\* C7: on any failure generatePlaylist resolves to at most 10 songs of the
\* static fallback list, in table order: exactly the entries whose title or
\* artist contains options.query case-insensitively, up to the cap.
C7_PlaylistFallbackExact ==
  \A c \in Calls :
    PlaylistFailed(c) =>
      /\ calls[c].result.kind = "resolved"
      /\ Len(calls[c].result.value) <= 10
      /\ calls[c].result.value =
           SubSeq(MatchingSongs(calls[c].query), 1,
                  IF Len(MatchingSongs(calls[c].query)) > 10 THEN 10
                  ELSE Len(MatchingSongs(calls[c].query)))

C7_Witness ==
  \E c \in Calls :
    /\ PlaylistFailed(c)
    /\ TryThrew(c)
    /\ calls[c].query = Q_imagine
    /\ Len(calls[c].result.value) = 1
    /\ calls[c].result.value[1].id = <<"2">>

\* C8: when getSuggestions (query of 2 or more characters) takes the
\* failure path because all relays fail or the response is not JSON, its
\* result is exactly the entries of the fallback table for the type, in
\* table order, whose value or label contains the query case-insensitively.
C8_SuggestionFallbackExact ==
  \A c \in Calls :
    (/\ Settled(c)
     /\ calls[c].op = "getSuggestions"
     /\ Len(calls[c].query) >= 2
     /\ TryThrew(c) \/ (TryReturned(c) /\ ~calls[c].resp.json))
    => calls[c].result =
         Resolved(ExpectedSuggestions(calls[c].query, calls[c].type))

\* C9: when every candidate of a call fails, tryWithProxy throws the error
\* thrown most recently by one of its requests (a later non-success status
\* neither replaces nor clears it), and the generic 'All CORS proxies
\* failed' error only if no request threw.
C9_ThrowsLastThrownError ==
  \A c \in Calls :
    TryThrew(c) =>
      calls[c].thrown = IF calls[c].lastRejected = "" THEN AllFailed
                        ELSE FetchError(calls[c].lastRejected)

C9_Witness ==
  \E c \in Calls :
    /\ TryThrew(c)
    /\ Len(calls[c].reqs) = N
    /\ calls[c].lastRejected = "AbortError: timed out"
    /\ calls[c].thrown = FetchError("AbortError: timed out")

\* ---- the extractor ----
\* the item has the three sub-elements and non-empty title, artist and id
Emits(item) ==
  /\ item.title # <<>>
  /\ item.artist # <<>>
  /\ \E a \in 1..Len(item.anchors) : includes(item.anchors[a], YoutubeDotCom)
  /\ trim(item.title[1]) # <<>>
  /\ trim(item.artist[1]) # <<>>
  /\ extractYoutubeId(YoutubeAnchors(item)[1]) # <<>>

\* 1-based positions of the items of html that produce a record
EmitPositions == {j \in 1..Len(html) : Emits(html[j])}

\* position in html of the item behind the k-th record
SourceOf(k) ==
  CHOOSE j \in EmitPositions : Cardinality({m \in EmitPositions : m < j}) = k - 1

\* C10: parseMusicFromHtml emits records in document order, and the id of
\* a record is '<i>-<videoId>' with i the 0-based position of its item among
\* all matched items, not among the emitted records.
C10_IdsUseMatchedPosition ==
  parsed =>
    /\ Len(songs) = Cardinality(EmitPositions)
    /\ \A k \in 1..Len(songs) :
         /\ songs[k].youtubeUrl = YoutubeAnchors(html[SourceOf(k)])[1]
         /\ songs[k].title = trim(html[SourceOf(k)].title[1])
         /\ songs[k].id =
              NumberToString(SourceOf(k) - 1) \o <<"-">> \o songs[k].youtubeId

\* three matched items of which only items 0 and 2 are complete
C10_Witness ==
  /\ parsed
  /\ Len(html) = 3
  /\ EmitPositions = {1, 3}
  /\ Len(songs) = 2
  /\ songs[1].id = <<"0", "-">> \o extractYoutubeId(YoutubeAnchors(html[1])[1])
  /\ songs[2].id = <<"2", "-">> \o extractYoutubeId(YoutubeAnchors(html[3])[1])

\* record k of songs was produced by the item at (1-based) position j
RecordOf(k, j) ==
  /\ YoutubeAnchors(html[j]) # <<>>
  /\ songs[k].youtubeUrl = YoutubeAnchors(html[j])[1]
  /\ songs[k].id = NumberToString(j - 1) \o <<"-">> \o songs[k].youtubeId

\* C11: a matched item yields a record if and only if it has a title
\* element, an artist element and an anchor whose href contains
\* 'youtube.com', and its trimmed title, trimmed artist and extracted video
\* identifier are all non-empty; so every record has non-empty title,
\* artist and youtubeId.
C11_EmitsIffComplete ==
  parsed =>
    /\ \A j \in 1..Len(html) :
         Emits(html[j]) <=> \E k \in 1..Len(songs) : RecordOf(k, j)
    /\ \A k \in 1..Len(songs) :
         /\ songs[k].title # <<>>
         /\ songs[k].artist # <<>>
         /\ songs[k].youtubeId # <<>>
         /\ \E j \in 1..Len(html) : RecordOf(k, j)

\* a document with a complete item and items failing each of the conditions
C11_Witness ==
  /\ parsed
  /\ Len(songs) = 1
  /\ \E j \in 1..Len(html) : html[j] \in {ItemBlankTitle, ItemNoId, ItemChannel}
  /\ \E j \in 1..Len(html) : html[j] \in {ItemNoTitle, ItemNoArtist, ItemNoAnchor}
  /\ \E j \in 1..Len(html) : Emits(html[j]) /\ RecordOf(1, j)

\* C12: within one batch returned by generatePlaylist, parsed from HTML or
\* taken from the fallback list, the ids of the songs are pairwise distinct,
\* also when two items carry the same video identifier.
C12_IdsDistinctInBatch ==
  \A c \in Calls :
    (/\ Settled(c)
     /\ calls[c].op = "generatePlaylist"
     /\ calls[c].result.kind = "resolved")
    => \A j, k \in 1..Len(calls[c].result.value) :
         j # k => calls[c].result.value[j].id # calls[c].result.value[k].id

\* a parsed batch in which two songs carry the same video identifier
C12_Witness ==
  \E c \in Calls :
    /\ TryReturned(c)
    /\ calls[c].op = "generatePlaylist"
    /\ Len(calls[c].result.value) = 2
    /\ calls[c].result.value[1].youtubeId = calls[c].result.value[2].youtubeId
    /\ calls[c].result.value[1].id # calls[c].result.value[2].id

\* ---- reference for the video identifier ----
\* positions of url right after an occurrence of one of the two prefixes
PrefixEnds(url) ==
  {p + Len(pre) : p \in 1..Len(url), pre \in {WatchPrefix, ShortPrefix}}
  \cap {q \in 1..(Len(url) + 1) :
          \E pre \in {WatchPrefix, ShortPrefix} : OccursAt(url, q - Len(pre), pre)}

\* the maximal run of characters from position q up to, not including, the
\* next '&', newline, '?' or '#'
MaxRun(url, q) ==
  SubSeq(url, q,
    CHOOSE e \in (q - 1)..Len(url) :
      /\ \A k \in q..e : url[k] \notin {"&", "\n", "?", "#"}
      /\ e = Len(url) \/ url[e + 1] \in {"&", "\n", "?", "#"})

RefRuns(url) == {MaxRun(url, q) : q \in PrefixEnds(url)}

\* item j has what is needed apart from a usable identifier
CompleteButForId(j) ==
  /\ html[j].title # <<>>
  /\ html[j].artist # <<>>
  /\ YoutubeAnchors(html[j]) # <<>>
  /\ trim(html[j].title[1]) # <<>>
  /\ trim(html[j].artist[1]) # <<>>

\* C13: the video identifier taken from a link target is the maximal run of
\* characters following 'youtube.com/watch?v=' or 'youtu.be/' up to the next
\* '&', newline, '?' or '#', and is empty (the item is dropped) when neither
\* prefix occurs; 'https://www.youtube.com/watch?v=abc123&list=x' gives
\* 'abc123'.
C13_IdIsRunAfterPrefix ==
  parsed =>
    \A j \in 1..Len(html) :
      CompleteButForId(j) =>
        IF \A r \in RefRuns(YoutubeAnchors(html[j])[1]) : r = <<>>
        THEN ~ \E k \in 1..Len(songs) : RecordOf(k, j)
        ELSE \E k \in 1..Len(songs) :
               /\ RecordOf(k, j)
               /\ songs[k].youtubeId \in RefRuns(YoutubeAnchors(html[j])[1])

C13_Witness ==
  /\ parsed
  /\ \E k \in 1..Len(songs) :
       /\ songs[k].youtubeUrl = ItemA.anchors[1]
       /\ songs[k].youtubeId = <<"a", "b", "c", "1", "2", "3">>
  /\ \E k \in 1..Len(songs) :
       /\ songs[k].youtubeUrl = ItemShort.anchors[1]
       /\ songs[k].youtubeId = <<"x", "Y", "-", "9">>
  /\ \E j \in 1..Len(html) : html[j] = ItemChannel

\* C14: in a call of tryWithProxy with no concurrent call, the k-th request
\* (k = 0, 1, ...) goes to relay (s + k) mod N, s being workingProxyIndex at
\* the start of the call; the call returns the response of the first
\* candidate in that order with a success status and sends no request
\* after it.
C14_RotationOrder ==
  \A c \in Calls :
    calls[c].reqs # <<>> =>
      /\ Len(calls[c].reqs) <= N
      /\ \A k \in 1..Len(calls[c].reqs) :
           calls[c].reqs[k] = (calls[c].reqs[1] + (k - 1)) % N
      /\ (calls[c].pc = "fetch" \/ TryThrew(c))
           => calls[c].reqs[1] = workingProxyIndex
      /\ TryReturned(c)
           => workingProxyIndex = calls[c].reqs[Len(calls[c].reqs)]

\* a call that started at relay 3, wrapped around and succeeded at relay 1
C14_Witness ==
  \E c \in Calls :
    /\ TryReturned(c)
    /\ calls[c].reqs = <<3, 0, 1>>
    /\ workingProxyIndex = 1

\* C15: when getSuggestions gets a success-status response with a JSON
\* content type whose parsed top-level value is not an array, it returns the
\* empty sequence and does not substitute entries of the fallback table,
\* even if the table has entries matching the query.
C15_NonArrayGivesEmpty ==
  \A c \in Calls :
    (/\ TryReturned(c)
     /\ calls[c].op = "getSuggestions"
     /\ calls[c].resp.json
     /\ ~calls[c].resp.bodyFails
     /\ ~calls[c].resp.isArray)
    => calls[c].result = Resolved(<<>>)

C15_Witness ==
  \E c \in Calls :
    /\ TryReturned(c)
    /\ calls[c].op = "getSuggestions"
    /\ calls[c].resp.json
    /\ ~calls[c].resp.bodyFails
    /\ ~calls[c].resp.isArray
    /\ ExpectedSuggestions(calls[c].query, calls[c].type) # <<>>
    /\ calls[c].result = Resolved(<<>>)

\* the step returns a success-status response to call c
SucceedsNow(c) ==
  /\ calls[c].pc = "fetch"
  /\ calls'[c].pc = "done"
  /\ calls'[c].resp.ok

\* the step ends call c with every candidate failed
FailsNow(c) ==
  /\ calls[c].pc = "fetch"
  /\ calls'[c].pc = "done"
  /\ calls'[c].thrown # NoError

\* C16: under any interleaving of getSuggestions, generatePlaylist and
\* activateCorsProxy, workingProxyIndex is a valid index 0..N-1; it starts
\* at 0 and changes only at the moment a relay returns a success status, to
\* that relay's index, so a call in which every candidate fails leaves it
\* unchanged.
C16_HintChangesOnlyOnSuccess ==
  /\ workingProxyIndex = 0
  /\ [](workingProxyIndex \in 0..(N - 1))
  /\ [][/\ \A c \in Calls :
             SucceedsNow(c) => workingProxyIndex' = calls[c].proxyIndex
        /\ \A c \in Calls : FailsNow(c) => workingProxyIndex' = workingProxyIndex
        /\ workingProxyIndex' # workingProxyIndex
             => \E c \in Calls : SucceedsNow(c)]_vars

\* the hint is away from 0, a later call has failed on every relay without
\* moving it, and the activation is under way
C16_Witness ==
  /\ workingProxyIndex # 0
  /\ \E c \in Calls : TryThrew(c) /\ Len(calls[c].reqs) = N
  /\ timers # <<>>
  /\ opened # {}

\* C17: provided every relay request eventually completes, every call of
\* getSuggestions and generatePlaylist eventually resolves, after sending at
\* most N relay requests in total, whatever concurrent calls do.
C17_EveryCallResolves ==
  /\ [](\A c \in Calls : Len(calls[c].reqs) <= N)
  /\ \A c \in Calls :
       (calls[c].pc = "fetch")
         ~> (Settled(c) /\ calls[c].result.kind = "resolved")

\* tryWithProxy of call c returned a success-status response the fetcher
\* cannot use: not JSON for getSuggestions, no song for generatePlaylist
Unusable(c) ==
  /\ TryReturned(c)
  /\ \/ calls[c].op = "getSuggestions" /\ ~calls[c].resp.json
     \/ /\ calls[c].op = "generatePlaylist"
        /\ ~calls[c].resp.bodyFails
        /\ parsedDoc[calls[c].resp.html] = <<>>

\* the relay call c requested last
LastRelay(c) == calls[c].reqs[Len(calls[c].reqs)]

\* the static suggestions and the static songs, by argument
StaticSuggestionsOf ==
  [q \in DataQueries, ty \in DataTypes |-> ExpectedSuggestions(q, ty)]

StaticSongsOf ==
  [q \in DataQueries |->
     SubSeq(MatchingSongs(q), 1,
            IF Len(MatchingSongs(q)) > 10 THEN 10 ELSE Len(MatchingSongs(q)))]

\* the static data for the arguments of call c
StaticData(c) ==
  IF calls[c].op = "getSuggestions"
  THEN StaticSuggestionsOf[calls[c].query, calls[c].type]
  ELSE StaticSongsOf[calls[c].query]

\* the step hands call c a success-status response with unusable content
UnusableNow(c) ==
  /\ calls[c].pc = "fetch"
  /\ calls'[c].pc = "done"
  /\ calls'[c].resp.ok
  /\ \/ calls[c].op = "getSuggestions" /\ ~calls'[c].resp.json
     \/ /\ calls[c].op = "generatePlaylist"
        /\ ~calls'[c].resp.bodyFails
        /\ parsedDoc[calls'[c].resp.html] = <<>>

====
